---- MODULE Spec2Model ----
(***************************************************************************)
(* The job-completion polling loops of the two notebooks:                  *)
(*   py : autopilot/sagemaker_autopilot_abalone_parquet_input.ipynb        *)
(*        (create_auto_ml_job, then describe_auto_ml_job every 60 s)       *)
(*   r  : r_examples/r_xgboost_hpo_batch_transform/                        *)
(*        r_xgboost_hpo_batch_transform.ipynb                              *)
(*        (tuner$fit(wait=FALSE), then describe_hyper_parameter_tuning_job *)
(*        every 60 s)                                                      *)
(* One behaviour runs one of the two notebooks (nb) against one job of the *)
(* external platform.  The job's state lives on the platform and changes   *)
(* by itself; the notebook only reads it through the describe call.        *)
(***************************************************************************)
EXTENDS Integers, Sequences, FiniteSets, TLC

(* Bound of the model: number of describe calls observed in one run. *)
MaxPolls == 3

(* Bound of the model: number of times the r polling cell is executed. *)
MaxRuns == 2

Notebooks == {"py", "r"}

(* Values of job_name: the prefix followed by the clock reading. *)
JobNames == {"name-10-15", "name-10-16"}

(* The argument of time.sleep in the py loop, in seconds. *)
PySleepSeconds == 60

(* The argument of Sys.sleep in the r loop, in seconds. *)
RSleepSeconds == 60

(* Primary status of a job, as both describe calls report it. *)
PrimaryStatus == {"InProgress", "Stopping", "Completed", "Failed", "Stopped"}

(* The terminal values of the primary status. *)
Terminal == {"Completed", "Failed", "Stopped"}

(* AutoMLJobSecondaryStatus, values the py loop can tell apart. *)
SecondaryStatus == {"ModelTuning", "Failed", "Stopped"}

(* ObjectiveStatusCounters of a tuning job, as far as the r loop prints it. *)
Counters == {"NoneFailed", "SomeFailed"}

(* The responses of the describe call of notebook n. *)
Snapshots(n) ==
  IF n = "py"
  THEN [AutoMLJobStatus : PrimaryStatus, AutoMLJobSecondaryStatus : SecondaryStatus]
  ELSE [HyperParameterTuningJobStatus : PrimaryStatus, ObjectiveStatusCounters : Counters]

(* The value of a snapshot variable nothing has been assigned to yet. *)
NoSnapshot(n) ==
  IF n = "py"
  THEN [AutoMLJobStatus |-> "None", AutoMLJobSecondaryStatus |-> "None"]
  ELSE [HyperParameterTuningJobStatus |-> "None", ObjectiveStatusCounters |-> "None"]

(* The job as the platform creates it at submission. *)
NewJob(n) ==
  IF n = "py"
  THEN [AutoMLJobStatus |-> "InProgress", AutoMLJobSecondaryStatus |-> "ModelTuning"]
  ELSE [HyperParameterTuningJobStatus |-> "InProgress", ObjectiveStatusCounters |-> "NoneFailed"]

VARIABLES
  nb,                \* the notebook that runs
  pc,                \* position of the notebook in its cell(s)
  job,               \* the job's state on the platform
  inflight,          \* number of describe calls issued and not yet returned
  response,          \* py: response;  r: status (the whole describe result)
  status,            \* py: status = response["AutoMLJobStatus"]
  secondary_status,  \* py: secondary_status = response["AutoMLJobSecondaryStatus"]
  err,               \* the exception that ended the cell, "None" if none
  queries,           \* observation: describe calls issued
  sleeps,            \* observation: sleep(60) calls completed
  returned,          \* observation: the snapshots the describe calls returned
  log,               \* observation: the snapshots printed, in order
  job_name,          \* job_name, set before the job is submitted
  latest_tuning_job, \* r: tuner$latest_tuning_job$job_name
  submitted,         \* platform: the names of the jobs submitted, in order
  asked,             \* observation: the job names the describe calls named
  intervals,         \* observation: the arguments of the sleeps done
  after,             \* r: number of the cells after the loop executed so far
  used,              \* observation: the snapshots those cells read
  run,               \* r: number of the execution of the polling cell
  previous           \* r: status as the previous execution left it

vars == <<nb, pc, job, inflight, response, status, secondary_status, err,
          queries, sleeps, returned, log,
          job_name, latest_tuning_job, submitted, asked, intervals,
          after, used, run, previous>>

(* What the statements of the polling loops leave alone, in groups. *)
names == <<job_name, latest_tuning_job, submitted>>
cells == <<after, used, run, previous>>

prog == <<nb, pc, inflight, response, status, secondary_status, err>>
obs == <<queries, sleeps, returned, log>>

(* The primary status field of a snapshot of the running notebook. *)
Primary(s) ==
  IF nb = "py" THEN s.AutoMLJobStatus ELSE s.HyperParameterTuningJobStatus

(* Observation counters and sequences stop growing at MaxPolls. *)
Inc(n) == IF n < MaxPolls THEN n + 1 ELSE n
Record(seq, x) == IF Len(seq) < MaxPolls THEN Append(seq, x) ELSE seq

Init ==
  /\ nb \in Notebooks
  /\ pc = "create"
  /\ job = NoSnapshot(nb)
  /\ inflight = 0
  /\ response = NoSnapshot(nb)
  /\ status = "None"
  /\ secondary_status = "None"
  /\ err = "None"
  /\ queries = 0
  /\ sleeps = 0
  /\ returned = << >>
  /\ log = << >>
  /\ job_name \in JobNames
  /\ latest_tuning_job = "None"
  /\ submitted = << >>
  /\ asked = {}
  /\ intervals = {}
  /\ after = 0
  /\ used = {}
  /\ run = 1
  /\ previous = NoSnapshot(nb)

(***************************************************************************)
(* The external platform.                                                  *)
(***************************************************************************)

(* A submitted job changes state by itself until its status is terminal;  *)
(* the transitions are not required to be monotonic.                       *)
JobStep ==
  /\ pc # "create"
  /\ Primary(job) \notin Terminal
  /\ \E s \in Snapshots(nb) : s # job /\ job' = s
  /\ UNCHANGED <<prog, obs>>
  /\ UNCHANGED <<names, asked, intervals, cells>>

(***************************************************************************)
(* py: the AutoML cell.                                                    *)
(***************************************************************************)

(* client.create_auto_ml_job with create_auto_ml_job_params *)
PyCreate ==
  /\ nb = "py" /\ pc = "create"
  /\ job' = NewJob("py")
  /\ pc' = "describe"
  /\ UNCHANGED <<nb, inflight, response, status, secondary_status, err, obs>>
  /\ submitted' = Append(submitted, job_name)
  /\ UNCHANGED <<job_name, latest_tuning_job, asked, intervals, cells>>

(* Variant of PyDescribeCall: the name is built again from the clock at   *)
(* the call instead of being taken from job_name.                          *)
PyDescribeCallFreshName ==
  /\ nb = "py" /\ pc = "describe"
  /\ inflight' = inflight + 1
  /\ queries' = Inc(queries)
  /\ pc' = "await"
  /\ UNCHANGED <<nb, job, response, status, secondary_status, err,
                 sleeps, returned, log>>
  /\ \E n \in JobNames : asked' = asked \cup {n}
  /\ UNCHANGED <<names, intervals, cells>>

(* client.describe_auto_ml_job(AutoMLJobName=job_name) is called *)
PyDescribeCall ==
  /\ nb = "py" /\ pc = "describe"
  /\ inflight' = inflight + 1
  /\ queries' = Inc(queries)
  /\ pc' = "await"
  /\ UNCHANGED <<nb, job, response, status, secondary_status, err,
                 sleeps, returned, log>>
  /\ asked' = asked \cup {job_name}
  /\ UNCHANGED <<names, intervals, cells>>

(* Variant of PyDescribeReturn: the loop body assigns status again but not *)
(* secondary_status, which keeps the value of the first response.          *)
PyDescribeReturnKeepsSecondary ==
  /\ nb = "py" /\ pc = "await"
  /\ inflight' = inflight - 1
  /\ response' = job
  /\ status' = job.AutoMLJobStatus
  /\ secondary_status' = IF returned = << >>
                          THEN job.AutoMLJobSecondaryStatus
                          ELSE secondary_status
  /\ returned' = Record(returned, job)
  /\ pc' = "print"
  /\ UNCHANGED <<nb, job, err, queries, sleeps, log>>
  /\ UNCHANGED <<names, asked, intervals, cells>>

(* the call returns: response, status and secondary_status are assigned *)
PyDescribeReturn ==
  /\ nb = "py" /\ pc = "await"
  /\ inflight' = inflight - 1
  /\ response' = job
  /\ status' = job.AutoMLJobStatus
  /\ secondary_status' = job.AutoMLJobSecondaryStatus
  /\ returned' = Record(returned, job)
  /\ pc' = "print"
  /\ UNCHANGED <<nb, job, err, queries, sleeps, log>>
  /\ UNCHANGED <<names, asked, intervals, cells>>

(* Variant of PyDescribeRaise: the exception is swallowed and the loop     *)
(* tries again after a sleep.                                              *)
PyDescribeRaiseRetried ==
  /\ nb = "py" /\ pc = "await"
  /\ inflight' = inflight - 1
  /\ pc' = "sleep"
  /\ UNCHANGED <<nb, job, response, status, secondary_status, err, obs>>
  /\ UNCHANGED <<names, asked, intervals, cells>>

(* the call raises: the exception ends the cell *)
PyDescribeRaise ==
  /\ nb = "py" /\ pc = "await"
  /\ inflight' = inflight - 1
  /\ err' = "StatusQueryError"
  /\ pc' = "error"
  /\ UNCHANGED <<nb, job, response, status, secondary_status, obs>>
  /\ UNCHANGED <<names, asked, intervals, cells>>

(* Variant of PyPrint: a line is printed only when it differs from the    *)
(* line printed last.                                                      *)
PyPrintSkipsRepeats ==
  /\ nb = "py" /\ pc = "print"
  /\ LET line == [AutoMLJobStatus |-> status,
                  AutoMLJobSecondaryStatus |-> secondary_status]
     IN log' = IF log # << >> /\ log[Len(log)] = line
               THEN log ELSE Record(log, line)
  /\ pc' = "guard"
  /\ UNCHANGED <<nb, job, inflight, response, status, secondary_status, err,
                 queries, sleeps, returned>>
  /\ UNCHANGED <<names, asked, intervals, cells>>

(* print(f"{status} - {secondary_status}") *)
PyPrint ==
  /\ nb = "py" /\ pc = "print"
  /\ log' = Record(log, [AutoMLJobStatus |-> status,
                         AutoMLJobSecondaryStatus |-> secondary_status])
  /\ pc' = "guard"
  /\ UNCHANGED <<nb, job, inflight, response, status, secondary_status, err,
                 queries, sleeps, returned>>
  /\ UNCHANGED <<names, asked, intervals, cells>>

(* Variant of PyGuard: the two tests are joined by or. *)
PyGuardOr ==
  /\ nb = "py" /\ pc = "guard"
  /\ pc' = IF status # "Completed" \/ secondary_status # "Failed"
           THEN "sleep" ELSE "done"
  /\ UNCHANGED <<nb, job, inflight, response, status, secondary_status, err, obs>>
  /\ UNCHANGED <<names, asked, intervals, cells>>

(* while status != "Completed" and secondary_status != "Failed": *)
PyGuard ==
  /\ nb = "py" /\ pc = "guard"
  /\ pc' = IF status # "Completed" /\ secondary_status # "Failed"
           THEN "sleep" ELSE "done"
  /\ UNCHANGED <<nb, job, inflight, response, status, secondary_status, err, obs>>
  /\ UNCHANGED <<names, asked, intervals, cells>>

(* Variant of PySleep: the loop body queries again without sleeping. *)
PySleepSkipped ==
  /\ nb = "py" /\ pc = "sleep"
  /\ pc' = "describe"
  /\ UNCHANGED <<nb, job, inflight, response, status, secondary_status, err, obs>>
  /\ UNCHANGED <<names, asked, intervals, cells>>

(* Variant of PySleep: the loop body submits the job again before it      *)
(* sleeps.                                                                 *)
PySleepResubmits ==
  /\ nb = "py" /\ pc = "sleep"
  /\ sleeps' = Inc(sleeps)
  /\ pc' = "describe"
  /\ job' = NewJob("py")
  /\ submitted' = Append(submitted, job_name)
  /\ intervals' = intervals \cup {PySleepSeconds}
  /\ UNCHANGED <<nb, inflight, response, status, secondary_status, err,
                 queries, returned, log>>
  /\ UNCHANGED <<job_name, latest_tuning_job, asked, cells>>

(* Variant of PySleep: the interval grows with the number of polls. *)
PySleepBackoff ==
  /\ nb = "py" /\ pc = "sleep"
  /\ sleeps' = Inc(sleeps)
  /\ pc' = "describe"
  /\ UNCHANGED <<nb, job, inflight, response, status, secondary_status, err,
                 queries, returned, log>>
  /\ intervals' = intervals \cup {PySleepSeconds * (sleeps + 1)}
  /\ UNCHANGED <<names, asked, cells>>

(* time.sleep(60) *)
PySleep ==
  /\ nb = "py" /\ pc = "sleep"
  /\ sleeps' = Inc(sleeps)
  /\ pc' = "describe"
  /\ UNCHANGED <<nb, job, inflight, response, status, secondary_status, err,
                 queries, returned, log>>
  /\ intervals' = intervals \cup {PySleepSeconds}
  /\ UNCHANGED <<names, asked, cells>>

(***************************************************************************)
(* r: the tuning-job cells.                                                *)
(***************************************************************************)

(* tuner$fit(inputs = input_data, job_name = job_name, wait=FALSE) *)
RFit ==
  /\ nb = "r" /\ pc = "create"
  /\ job' = NewJob("r")
  /\ pc' = "describe"
  /\ UNCHANGED <<nb, inflight, response, status, secondary_status, err, obs>>
  /\ submitted' = Append(submitted, job_name)
  /\ latest_tuning_job' = job_name
  /\ UNCHANGED <<job_name, asked, intervals, cells>>

(* Variant of RDescribeCall: the call is started and not waited for. *)
RDescribeCallNotAwaited ==
  /\ nb = "r" /\ pc = "describe"
  /\ inflight' = inflight + 1
  /\ queries' = Inc(queries)
  /\ pc' = "guard"
  /\ UNCHANGED <<nb, job, response, status, secondary_status, err,
                 sleeps, returned, log>>
  /\ asked' = asked \cup {latest_tuning_job}
  /\ UNCHANGED <<names, intervals, cells>>

(* sm$describe_hyper_parameter_tuning_job(...) is called *)
RDescribeCall ==
  /\ nb = "r" /\ pc = "describe"
  /\ inflight' = inflight + 1
  /\ queries' = Inc(queries)
  /\ pc' = "await"
  /\ UNCHANGED <<nb, job, response, status, secondary_status, err,
                 sleeps, returned, log>>
  /\ asked' = asked \cup {latest_tuning_job}
  /\ UNCHANGED <<names, intervals, cells>>

(* Variant of RDescribeReturn: the call made is one that stops the job. *)
RDescribeReturnStopsJob ==
  /\ nb = "r" /\ pc = "await"
  /\ inflight' = inflight - 1
  /\ job' = [job EXCEPT !.HyperParameterTuningJobStatus = "Stopped"]
  /\ response' = job'
  /\ returned' = Record(returned, job')
  /\ pc' = "guard"
  /\ UNCHANGED <<nb, status, secondary_status, err, queries, sleeps, log>>
  /\ UNCHANGED <<names, asked, intervals, cells>>

(* the call returns: status <- its result *)
RDescribeReturn ==
  /\ nb = "r" /\ pc = "await"
  /\ inflight' = inflight - 1
  /\ response' = job
  /\ returned' = Record(returned, job)
  /\ pc' = "guard"
  /\ UNCHANGED <<nb, job, status, secondary_status, err, queries, sleeps, log>>
  /\ UNCHANGED <<names, asked, intervals, cells>>

(* the call raises: the error ends the cell *)
RDescribeRaise ==
  /\ nb = "r" /\ pc = "await"
  /\ inflight' = inflight - 1
  /\ err' = "StatusQueryError"
  /\ pc' = "error"
  /\ UNCHANGED <<nb, job, response, status, secondary_status, obs>>
  /\ UNCHANGED <<names, asked, intervals, cells>>

(* Variant of RGuard: the loop runs while the job is InProgress. *)
RGuardWhileInProgress ==
  /\ nb = "r" /\ pc = "guard"
  /\ pc' = IF response.HyperParameterTuningJobStatus = "InProgress"
           THEN "print" ELSE "done"
  /\ UNCHANGED <<nb, job, inflight, response, status, secondary_status, err, obs>>
  /\ UNCHANGED <<names, asked, intervals, cells>>

(* while (status$HyperParameterTuningJobStatus != "Completed") { *)
RGuard ==
  /\ nb = "r" /\ pc = "guard"
  /\ pc' = IF response.HyperParameterTuningJobStatus # "Completed"
           THEN "print" ELSE "done"
  /\ UNCHANGED <<nb, job, inflight, response, status, secondary_status, err, obs>>
  /\ UNCHANGED <<names, asked, intervals, cells>>

(* Variant of RMessage: the loop body reports nothing. *)
RMessageDropped ==
  /\ nb = "r" /\ pc = "print"
  /\ pc' = "sleep"
  /\ UNCHANGED <<nb, job, inflight, response, status, secondary_status, err, obs>>
  /\ UNCHANGED <<names, asked, intervals, cells>>

(* message(cat('Hyperparameter Tuning Job Status: ', ...)); message(cat(counters)) *)
RMessage ==
  /\ nb = "r" /\ pc = "print"
  /\ log' = Record(log, response)
  /\ pc' = "sleep"
  /\ UNCHANGED <<nb, job, inflight, response, status, secondary_status, err,
                 queries, sleeps, returned>>
  /\ UNCHANGED <<names, asked, intervals, cells>>

(* Sys.sleep(60) *)
RSleep ==
  /\ nb = "r" /\ pc = "sleep"
  /\ sleeps' = Inc(sleeps)
  /\ pc' = "describe"
  /\ UNCHANGED <<nb, job, inflight, response, status, secondary_status, err,
                 queries, returned, log>>
  /\ intervals' = intervals \cup {RSleepSeconds}
  /\ UNCHANGED <<names, asked, cells>>

(***************************************************************************)
(* r: the cells after the loop, and the polling cell executed again.       *)
(***************************************************************************)

(* status$BestTrainingJob$TunedHyperParameters,                            *)
(* $FinalHyperParameterTuningJobObjectiveMetric, $TrainingJobName          *)
RBestTrainingJob ==
  /\ nb = "r" /\ pc = "done" /\ after = 0
  /\ after' = 1
  /\ used' = used \cup {response}
  /\ UNCHANGED <<job, prog, obs, names, asked, intervals, run, previous>>

(* sm$describe_training_job(TrainingJobName =                              *)
(*   status$BestTrainingJob$TrainingJobName)$ModelArtifacts$S3ModelArtifacts *)
RDescribeTrainingJob ==
  /\ nb = "r" /\ pc = "done" /\ after = 1
  /\ after' = 2
  /\ used' = used \cup {response}
  /\ UNCHANGED <<job, prog, obs, names, asked, intervals, run, previous>>

(* model_container; best_model <- sm$create_model(...) *)
RCreateModel ==
  /\ nb = "r" /\ pc = "done" /\ after = 2
  /\ after' = 3
  /\ UNCHANGED <<job, prog, obs, names, asked, intervals, used, run, previous>>

(* The polling cell is executed again, after it finished or failed: its    *)
(* output is cleared, status keeps its value until the call returns, the   *)
(* job is not submitted again.                                             *)
RRerun ==
  /\ nb = "r" /\ pc \in {"done", "error"} /\ after = 0
  /\ run < MaxRuns
  /\ run' = run + 1
  /\ previous' = response
  /\ pc' = "describe"
  /\ err' = "None"
  /\ queries' = 0 /\ sleeps' = 0 /\ returned' = << >> /\ log' = << >>
  /\ asked' = {} /\ intervals' = {}
  /\ UNCHANGED <<nb, job, inflight, response, status, secondary_status,
                 names, after, used>>

(***************************************************************************)
(* Specifications.                                                         *)
(***************************************************************************)

(* The describe calls, observed up to MaxPolls of them. *)
PyDescribe == queries < MaxPolls /\ PyDescribeCall
RDescribe == queries < MaxPolls /\ RDescribeCall

Next ==
  \/ JobStep
  \/ PyCreate \/ PyDescribe \/ PyDescribeReturn \/ PyDescribeRaise
  \/ PyPrint \/ PyGuard \/ PySleep
  \/ RFit \/ RDescribe \/ RDescribeReturn \/ RDescribeRaise
  \/ RGuard \/ RMessage \/ RSleep
  \/ RBestTrainingJob \/ RDescribeTrainingJob \/ RCreateModel

Spec == Init /\ [][Next]_vars

(* The steps of the notebook itself (the platform's JobStep is not one). *)
Notebook ==
  \/ PyCreate \/ PyDescribeCall \/ PyDescribeReturn \/ PyDescribeRaise
  \/ PyPrint \/ PyGuard \/ PySleep
  \/ RFit \/ RDescribeCall \/ RDescribeReturn \/ RDescribeRaise
  \/ RGuard \/ RMessage \/ RSleep
  \/ RBestTrainingJob \/ RDescribeTrainingJob \/ RCreateModel

(* The loops as they run, with no bound on the number of polls: the        *)
(* observations stop growing at MaxPolls, the program does not stop.  The  *)
(* notebook is a sequential program, so it always takes its next step: a   *)
(* sleep ends, a describe call returns or raises.                          *)
LiveNext == JobStep \/ Notebook

LiveSpec == Init /\ [][LiveNext]_vars /\ WF_vars(Notebook)

(* The notebook, with the r polling cell executed up to MaxRuns times. *)
RerunNext == Next \/ RRerun

RerunSpec == Init /\ [][RerunNext]_vars

TypeOK ==
  /\ nb \in Notebooks
  /\ pc \in {"create", "describe", "await", "print", "guard", "sleep", "done", "error"}
  /\ job \in Snapshots(nb) \cup {NoSnapshot(nb)}
  /\ inflight \in 0..1
  /\ response \in Snapshots(nb) \cup {NoSnapshot(nb)}
  /\ err \in {"None", "StatusQueryError"}
  /\ queries \in 0..MaxPolls
  /\ sleeps \in 0..MaxPolls
  /\ Len(returned) <= MaxPolls
  /\ Len(log) <= MaxPolls
  /\ job_name \in JobNames
  /\ latest_tuning_job \in JobNames \cup {"None"}
  /\ Len(submitted) <= 1
  /\ asked \subseteq JobNames
  /\ intervals \subseteq {PySleepSeconds, RSleepSeconds}
  /\ after \in 0..3
  /\ used \subseteq Snapshots(nb)
  /\ run \in 1..MaxRuns
  /\ previous \in Snapshots(nb) \cup {NoSnapshot(nb)}

(***************************************************************************)
(* Vocabulary of the properties.                                           *)
(***************************************************************************)

IsTerminal(s) == Primary(s) \in Terminal
IsNonTerminal(s) == Primary(s) \in PrimaryStatus \ Terminal

(* The latest snapshot returned, once there is one. *)
HasSnapshot == response # NoSnapshot(nb)

(* The guard has chosen another iteration, or the iteration is under way. *)
Continuing ==
  \/ pc = "sleep"
  \/ nb = "r" /\ pc = "print"
  \/ pc \in {"describe", "await", "error"} /\ sleeps > 0

(* Index of the first terminal snapshot among those returned, 0 if none. *)
FirstTerminal ==
  LET T == {i \in 1..Len(returned) : IsTerminal(returned[i])}
  IN IF T = {} THEN 0 ELSE CHOOSE i \in T : \A j \in T : i <= j

(* C1: once a describe call has returned a snapshot whose primary status   *)
(* is Completed, Failed or Stopped, the notebook is not about to sleep or  *)
(* to query again: its next position after the guard is Done.              *)
C1_TerminalSnapshotStopsPolling ==
  (HasSnapshot /\ IsTerminal(response)) => pc \notin {"sleep", "describe", "await"}

(* C2: when the snapshots returned are s0..sn with sn the first terminal   *)
(* one, exactly n+1 describe calls are made, the notebook does not go on   *)
(* into another iteration, and at Done it holds sn.                        *)
C2_ExactlyNPlusOneQueries ==
  FirstTerminal > 0 =>
    /\ queries = FirstTerminal
    /\ ~Continuing
    /\ pc = "done" => response = returned[FirstTerminal]

(* C3: in every Done state the latest snapshot's primary status is         *)
(* Completed, Failed or Stopped, whatever its secondary fields are.        *)
C3_DoneOnlyOnTerminalPrimary ==
  pc = "done" => HasSnapshot /\ IsTerminal(response)

(* C4: if the first describe call returns a terminal snapshot, exactly one *)
(* call is made and no sleep happens.                                      *)
C4_FirstTerminalOneQueryNoSleep ==
  (Len(returned) >= 1 /\ IsTerminal(returned[1])) =>
    queries = 1 /\ sleeps = 0

(* C5: a describe call that raises ends the cell in the error outcome     *)
(* carrying StatusQueryError, whichever call it is (a call that ends       *)
(* without delivering a snapshot ends in that outcome); the failed call    *)
(* changes nothing else, and from then on the notebook makes no call, no   *)
(* sleep and no report, and never becomes Done.                            *)
C5_QueryFailureEndsWatch ==
  [][ /\ (err' # "None") <=> (pc' = "error")
      /\ (inflight' < inflight /\ returned' = returned) => pc' = "error"
      /\ (pc # "error" /\ pc' = "error") =>
            /\ pc = "await" /\ inflight' = 0
            /\ err' = "StatusQueryError"
            /\ UNCHANGED <<response, status, secondary_status, obs>>
      /\ pc = "error" => UNCHANGED <<prog, obs>>
    ]_vars

(* C5 witness: the second describe call failed, after one sleep. *)
C5_Witness ==
  pc = "error" /\ err = "StatusQueryError" /\ queries = 2 /\ sleeps = 1
    /\ Len(returned) = 1

(* C6: when a describe call returns a snapshot with primary status Failed, *)
(* the notebook leaves the loop normally with that snapshot: it makes no   *)
(* further call, does not start another iteration and does not end in the  *)
(* error outcome; [Failed] alone gives one call.                           *)
C6_FailedSnapshotIsNormalResult ==
  \A i \in 1..Len(returned) :
    Primary(returned[i]) = "Failed" =>
      /\ i = Len(returned) /\ queries = i
      /\ response = returned[i]
      /\ pc \in {"print", "guard", "done"}
      /\ nb = "r" => pc # "print"

(* C7: if the job ends up in a terminal primary status for good and no     *)
(* describe call raises, the notebook eventually reaches Done.             *)
C7_TerminalJobLeadsToDone ==
  (<>[](Primary(job) \in Terminal) /\ [](pc # "error")) => <>(pc = "done")

(* C8, as the claim states it: in every state the number of sleeps done    *)
(* is the number of describe calls completed minus one, or zero before any *)
(* call has completed.                                                     *)
C8_SleepsAreQueriesCompletedMinusOne ==
  sleeps = IF Len(returned) = 0 THEN 0 ELSE Len(returned) - 1

(* C8, amended: describe calls and sleeps strictly alternate, starting and *)
(* ending with a call.  Counting the calls issued: before the first call   *)
(* and between the end of a sleep and the issue of the next call the two   *)
(* numbers are equal; in every other state (a call in flight, its result   *)
(* being printed or tested, about to sleep, Done, error) the sleeps are    *)
(* the calls minus one.  A sleep only starts after a call that returned,   *)
(* a call is only issued first or after a sleep.                           *)
C8_QueriesAndSleepsAlternate ==
  /\ pc = "create" => queries = 0 /\ sleeps = 0
  /\ pc = "describe" => sleeps = queries
  /\ pc \notin {"create", "describe"} => sleeps = queries - 1
  /\ pc = "sleep" => Len(returned) = queries
  /\ inflight = IF pc = "await" THEN 1 ELSE 0

(* C8 witness: three calls separated by two sleeps, then Done. *)
C8_Witness ==
  pc = "done" /\ queries = 3 /\ sleeps = 2 /\ Len(returned) = 3

(* The non-terminal snapshots of a sequence, in order. *)
NonTerminalOf(seq) == SelectSeq(seq, IsNonTerminal)

(* All but the last element of a non-empty sequence. *)
Front(seq) == SubSeq(seq, 1, Len(seq) - 1)

(* The latest snapshot has been through the notebook's report statement,   *)
(* or never gets there: py prints right after the call; r prints in the    *)
(* loop body, before the sleep.                                            *)
ReportDue ==
  \/ pc \in {"create", "describe", "await", "sleep", "done", "error"}
  \/ nb = "py" /\ pc = "guard"

(* C9: the non-terminal snapshots printed are the non-terminal snapshots   *)
(* returned, each once and in the order of the calls; whenever the next    *)
(* call is issued or in flight, and at the end, none is missing; before    *)
(* the report statement has run only the latest one is.                    *)
C9_NonTerminalSnapshotsReportedOnceInOrder ==
  /\ ReportDue => NonTerminalOf(log) = NonTerminalOf(returned)
  /\ ~ReportDue => NonTerminalOf(log) = NonTerminalOf(Front(returned))

(* C9 witness: two non-terminal snapshots reported, a third call issued. *)
C9_Witness ==
  /\ pc = "await" /\ queries = 3
  /\ Len(NonTerminalOf(returned)) = 2
  /\ NonTerminalOf(log) = returned
  /\ returned[1] # returned[2]

(* C10: the notebook leaves the guard to Done exactly on a terminal        *)
(* snapshot and into another iteration exactly on a non-terminal one, and  *)
(* Done is absorbing: the snapshot held never changes and no call, sleep   *)
(* or report follows.                                                      *)
C10_TwoStateMachine ==
  [][ /\ (pc = "guard" /\ pc' = "done") => IsTerminal(response)
      /\ (pc = "guard" /\ pc' \notin {"guard", "done"}) => IsNonTerminal(response)
      /\ pc = "done" => UNCHANGED <<prog, obs>>
    ]_vars

(* C11: when the polling cell is executed again and finds the job already *)
(* in a terminal status, that execution makes exactly one describe call    *)
(* and no sleep, and the snapshot it gets is the terminal snapshot the     *)
(* previous execution held.                                                *)
C11_RerunOnTerminalJobIsIdempotent ==
  (run > 1 /\ Len(returned) >= 1 /\ IsTerminal(returned[1])) =>
    /\ queries = 1 /\ sleeps = 0
    /\ IsTerminal(previous) => returned[1] = previous

(* C12: a step of the polling loop (call, return, report, guard, sleep)   *)
(* leaves the platform alone: the job's state and the jobs submitted do    *)
(* not change; and of the notebook's data only the latest snapshot is      *)
(* written, at the return of a describe call, with the job's state as the  *)
(* platform holds it: job_name and the tuner's job are never written.      *)
C12_StatusQueryIsPureRead ==
  [][ /\ (pc # "create" /\ <<prog, obs, asked, intervals>>' # <<prog, obs, asked, intervals>>)
           => UNCHANGED <<job, submitted>>
      /\ pc # "create" => UNCHANGED <<job_name, latest_tuning_job>>
      /\ <<response, status, secondary_status>>' # <<response, status, secondary_status>>
           => pc = "await" /\ response' = job
    ]_vars

(* C12 witness: three calls, two sleeps and two reports were made, and the *)
(* job still is as the last call found it.                                 *)
C12_Witness ==
  /\ queries = 3 /\ sleeps = 2 /\ Len(log) >= 2 /\ Len(returned) = 3
  /\ job = returned[3] /\ ~IsTerminal(job)

(* C13: the notebook is one thread of control: at most one describe call  *)
(* is outstanding, and one is outstanding only while the notebook waits    *)
(* for it; during a sleep, as at every other statement, none is.           *)
C13_AtMostOneQueryNoneWhileSuspended ==
  /\ inflight \in {0, 1}
  /\ inflight = 1 => pc = "await"
  /\ pc = "sleep" => inflight = 0 /\ Len(returned) = queries

(* C13 witness: suspended after the second call, no call outstanding. *)
C13_Witness ==
  pc = "sleep" /\ queries = 2 /\ sleeps = 1 /\ inflight = 0

(* C14: every sleep of either loop is a sleep of 60 seconds, however many  *)
(* polls were made and whatever snapshots were seen.                       *)
C14_EverySleepIsSixtySeconds ==
  /\ intervals \subseteq {60}
  /\ sleeps > 0 => intervals = {60}

(* C14 witness: two sleeps done, after two different snapshots. *)
C14_Witness ==
  /\ sleeps = 2 /\ intervals = {60} /\ Len(returned) >= 2
  /\ returned[1] # returned[2]

(* C16: the describe calls of one watch all name one job, the job that    *)
(* was submitted before the watch: the name submitted is job_name (in r    *)
(* also the tuner's latest tuning job), and it is the only name asked for. *)
C16_QueriesNameTheSubmittedJob ==
  /\ asked # {} => submitted # << >> /\ asked = {submitted[Len(submitted)]}
  /\ submitted # << >> =>
       /\ submitted[Len(submitted)] = job_name
       /\ nb = "r" => latest_tuning_job = job_name

(* C16 witness: three calls made, all for the submitted job. *)
C16_Witness ==
  queries = 3 /\ submitted = <<job_name>> /\ asked = {job_name}

(* The latest snapshot of the py loop satisfies the loop's exit test. *)
PyExitTest ==
  \/ response.AutoMLJobStatus = "Completed"
  \/ response.AutoMLJobSecondaryStatus = "Failed"

(* The py notebook is inside the loop body, before the body's describe     *)
(* call has returned: at the sleep, or at the call that follows a sleep.   *)
PyBodyBeforeReturn ==
  nb = "py" /\ (pc = "sleep" \/ (pc \in {"describe", "await"} /\ sleeps >= 1))

(* The py notebook is inside the loop body, at any of its statements. *)
PyInLoopBody ==
  PyBodyBeforeReturn \/ (nb = "py" /\ pc = "print" /\ sleeps >= 1)

(* C17, as the claim states it: after the py loop the latest snapshot is   *)
(* Completed or has secondary status Failed, and in every state inside the *)
(* loop body it is neither.                                                *)
C17_ExitTestFalseThroughoutBody ==
  /\ (nb = "py" /\ pc = "done") => PyExitTest
  /\ PyInLoopBody => ~PyExitTest

(* C17, amended: after the py loop the latest snapshot is Completed or has *)
(* secondary status Failed; inside the loop body it is neither up to the   *)
(* return of the body's describe call (during the sleep and the call).     *)
(* Once that call has returned, still inside the body, the latest snapshot *)
(* is the new one, whatever it is.                                         *)
C17_PyLoopExitsExactlyOnExitTest ==
  /\ (nb = "py" /\ pc = "done") => PyExitTest
  /\ PyBodyBeforeReturn => ~PyExitTest

(* C17 witness: the loop was entered and then left through the secondary   *)
(* status, the primary status not being Completed.                         *)
C17_Witness ==
  /\ nb = "py" /\ pc = "done" /\ sleeps >= 1
  /\ status # "Completed" /\ secondary_status = "Failed"

(* C18: in r, the cells after the loop (the reads of status$BestTrainingJob, *)
(* describe_training_job, create_model) run only once the loop is over and *)
(* a snapshot with HyperParameterTuningJobStatus Completed was returned,   *)
(* and the snapshot they read is that one, the last one returned.          *)
C18_CellsAfterLoopReadCompletedSnapshot ==
  after > 0 =>
    /\ nb = "r" /\ pc = "done"
    /\ returned # << >>
    /\ returned[Len(returned)].HyperParameterTuningJobStatus = "Completed"
    /\ response = returned[Len(returned)]
    /\ used = {returned[Len(returned)]}

(* C18 witness: the three cells ran after a loop of three calls whose      *)
(* earlier snapshots differ from the last.                                 *)
C18_Witness ==
  /\ after = 3 /\ Len(returned) = 3
  /\ returned[1] # returned[3] /\ returned[2] # returned[3]
  /\ used = {returned[3]}

(* C19: the job is submitted exactly once, before the first describe call: *)
(* no call is made while nothing is submitted, and from the first call on  *)
(* there is one submission, whatever the number of iterations.             *)
C19_SubmittedOnceBeforeFirstQuery ==
  /\ Len(submitted) <= 1
  /\ submitted = << >> <=> pc = "create"
  /\ (queries > 0 \/ inflight > 0 \/ returned # << >>) => Len(submitted) = 1

(* C19 witness: three calls and two sleeps after the one submission. *)
C19_Witness ==
  Len(submitted) = 1 /\ queries = 3 /\ sleeps = 2 /\ Len(returned) = 3

(* C20: in the py loop every snapshot returned, the last one included, is  *)
(* printed once, right after its call: at the loop guard, in the loop body *)
(* up to the next return, and after the loop, the lines printed are the    *)
(* snapshots returned, as many and in the same order; between a return and *)
(* its print only the latest snapshot is not printed yet.                  *)
C20_PyPrintsEverySnapshotOnce ==
  nb = "py" =>
    /\ pc \in {"guard", "done"} => Len(log) = Len(returned) /\ log = returned
    /\ pc \in {"sleep", "describe", "await", "error"} => log = returned
    /\ pc = "print" => log = Front(returned)

(* C20 witness: the py loop is over after three calls, the first two of    *)
(* which returned the same snapshot, and three lines were printed.         *)
C20_Witness ==
  /\ nb = "py" /\ pc = "done" /\ Len(returned) = 3 /\ Len(log) = 3
  /\ returned[1] = returned[2]

(* C21: in the py loop every evaluation of the guard reads a status and a  *)
(* secondary_status that are the two fields of one response, and that      *)
(* response is the one of the latest describe call: at the guard no call   *)
(* is outstanding, every call made has returned, and response, status and  *)
(* secondary_status all hold the last snapshot returned.                   *)
C21_GuardReadsLatestResponse ==
  (nb = "py" /\ pc = "guard") =>
    /\ inflight = 0
    /\ returned # << >>
    /\ Len(returned) = queries
    /\ response = returned[Len(returned)]
    /\ status = returned[Len(returned)].AutoMLJobStatus
    /\ secondary_status = returned[Len(returned)].AutoMLJobSecondaryStatus

(* C21 witness: the guard is reached after the third call, whose response  *)
(* differs from the first two in both fields.                              *)
C21_Witness ==
  /\ nb = "py" /\ pc = "guard" /\ Len(returned) = 3
  /\ \A i \in 1..2 :
       /\ returned[i].AutoMLJobStatus # returned[3].AutoMLJobStatus
       /\ returned[i].AutoMLJobSecondaryStatus # returned[3].AutoMLJobSecondaryStatus
  /\ status = returned[3].AutoMLJobStatus
  /\ secondary_status = returned[3].AutoMLJobSecondaryStatus

====
